---- MODULE Spec2Model ----
(***************************************************************************)
(* linchange: main(args) of linchange.py as a state machine.               *)
(*                                                                         *)
(* A run walks through main's stages: the input-count check, the           *)
(* annotation load, the allocation of the value matrix, the aggregation    *)
(* loop over the input tracks and the annotated genes, the percentile      *)
(* (outlier) filter, the linear fit, the kernel density and the plot.      *)
(*                                                                         *)
(* Numbers: a level is a natural number, NaN is the sentinel -1.  A        *)
(* percentile threshold is carried multiplied by 100, so that numpy's      *)
(* linear interpolation between two order statistics stays an integer.     *)
(* A track is represented by what main reads from it: the nanmean of its   *)
(* signal over each annotated gene, in annotation order.                   *)
(***************************************************************************)
EXTENDS Integers, Sequences, FiniteSets

\* Bounds of the model.
MaxInputs == 5     \* longest input_data list tried
MaxGenes == 3      \* most rows of the annotation

\* np.nan, as produced by np.nanmean over a stretch without data.
NaN == -1

Strands == {"+", "-", "."}

\* The percentiles tried (args.percentile, default 100).
Percentiles == {0, 25, 50, 75, 100}

\* The levels a track may show over a gene where every track is tried.
Levels == {NaN, 1, 2, 3}

VARIABLES
    pc,                     \* position in main
    nInputs,                \* len(input_data)
    do_distinguish_strand,  \* args.do_distinguish_strand
    percentile,             \* args.percentile
    annot_file,             \* the annotation: the strand of each gene, in order
    annotLoaded,            \* annotation_loading has been called
    values,                 \* the value matrix: a sequence of rows
    i_sample,               \* index of the track being read, from 0
    i_gene,                 \* genes of the current track already read
    bw_file,                \* the track currently bound to bw_file
    handles,                \* tracks opened by pyBigWig.open and not closed
    reg,                    \* the fitted line, once fitted
    err                     \* the exception that ended the run, or "none"

vars == <<pc, nInputs, do_distinguish_strand, percentile, annot_file, annotLoaded,
          values, i_sample, i_gene, bw_file, handles, reg, err>>

NoReg == [coefNum |-> 0, coefDen |-> 0, interceptNum |-> 0, interceptDen |-> 0]

----------------------------------------------------------------------------
\* Helpers on numbers and rows.

IsNaN(x) == x = NaN

Range(s) == {s[i] : i \in 1..Len(s)}

RECURSIVE SumSeq(_)
SumSeq(s) == IF s = <<>> THEN 0 ELSE Head(s) + SumSeq(Tail(s))

RECURSIVE Insert(_, _)
Insert(x, s) ==
    IF s = <<>> THEN <<x>>
    ELSE IF x <= Head(s) THEN <<x>> \o s
    ELSE <<Head(s)>> \o Insert(x, Tail(s))

RECURSIVE SortSeq(_)
SortSeq(s) == IF s = <<>> THEN <<>> ELSE Insert(Head(s), SortSeq(Tail(s)))

NumGenes == Len(annot_file)

\* np.zeros((rows, cols))
Zeros(rows, cols) == [r \in 1..rows |-> [c \in 1..cols |-> 0]]

NumCols(m) == IF m = <<>> THEN 0 ELSE Len(m[1])

----------------------------------------------------------------------------
\* The tracks.

\* bw_file.values(chr, start, end) averaged by np.nanmean: the level of gene g
\* (from 1) in track bw; NaN where the track holds no data.
TrackLevel(bw, g) == bw[g]

\* The track files offered to a run over n genes: a rising signal, a flat one,
\* and one without data over the second gene.
TrackFiles(n) ==
    { [g \in 1..n |-> g],
      [g \in 1..n |-> 4],
      [g \in 1..n |-> IF g = 2 THEN NaN ELSE 3] }

----------------------------------------------------------------------------
\* main, lines 57-59: the input count.

ValidInputCountLoose(n) == n \in {2, 3, 4}

ValidInputCount(n) == n \in {2, 4}

CheckInputCount ==
    /\ pc = "start"
    /\ IF ~ValidInputCount(nInputs)
       THEN /\ pc' = "error"
            /\ err' = "InvalidInputCount"
       ELSE /\ pc' = "load"
            /\ err' = err
    /\ UNCHANGED <<nInputs, do_distinguish_strand, percentile, annot_file, annotLoaded,
                   values, i_sample, i_gene, bw_file, handles, reg>>

\* main, line 69: annotation_loading returns the annotation table ...
LoadAnnotation ==
    /\ pc = "load"
    /\ \E n \in 0..MaxGenes :
           \E a \in [1..n -> Strands] : annot_file' = a
    /\ annotLoaded' = TRUE
    /\ pc' = "alloc"
    /\ UNCHANGED <<nInputs, do_distinguish_strand, percentile, values, i_sample,
                   i_gene, bw_file, handles, reg, err>>

\* ... or raises: the path is neither .bed nor gtf.
LoadAnnotationFails ==
    /\ pc = "load"
    /\ annotLoaded' = TRUE
    /\ pc' = "error"
    /\ err' = "UnrecognizedAnnotationFormat"
    /\ UNCHANGED <<nInputs, do_distinguish_strand, percentile, annot_file, values,
                   i_sample, i_gene, bw_file, handles, reg>>

\* main, lines 70-73: the number of rows of the value matrix.
NumRows(n, strand) == IF strand THEN n \div 2 ELSE n

AllocValues ==
    /\ pc = "alloc"
    /\ values' = Zeros(NumRows(nInputs, do_distinguish_strand), NumGenes)
    /\ i_sample' = 0
    /\ pc' = "open"
    /\ UNCHANGED <<nInputs, do_distinguish_strand, percentile, annot_file, annotLoaded,
                   i_gene, bw_file, handles, reg, err>>

----------------------------------------------------------------------------
\* main, lines 74-86: the aggregation loop.

\* line 75: pyBigWig.open; the name bw_file is rebound, the handle is not closed.
OpenTrack ==
    /\ pc = "open"
    /\ \E bw \in TrackFiles(NumGenes) :
           /\ bw_file' = bw
           /\ handles' = Append(handles, bw)
    /\ i_gene' = 0
    /\ pc' = "gene"
    /\ UNCHANGED <<nInputs, do_distinguish_strand, percentile, annot_file, annotLoaded,
                   values, i_sample, reg, err>>

\* line 75: pyBigWig.open raises on a file it cannot open.
OpenTrackFails ==
    /\ pc = "open"
    /\ pc' = "error"
    /\ err' = "IOError"
    /\ UNCHANGED <<nInputs, do_distinguish_strand, percentile, annot_file, annotLoaded,
                   values, i_sample, i_gene, bw_file, handles, reg>>

\* line 76
IsMinusFlipped(sample) == sample % 2 = 0

IsMinus(sample) == sample % 2 = 1

\* lines 79-86: where the level of gene g (from 1) of track `sample` (from 0)
\* goes; rows are counted from 1 here.
StoreLevel(m, strandMode, sample, g, strand, level) ==
    IF strandMode /\ IsMinus(sample) /\ strand = "-"
    THEN [m EXCEPT ![(sample \div 2) + 1][g] = level]
    ELSE IF strandMode /\ ~IsMinus(sample) /\ strand = "+"
    THEN [m EXCEPT ![(sample \div 2) + 1][g] = level]
    ELSE IF ~strandMode
    THEN [m EXCEPT ![sample + 1][g] = level]
    ELSE m

\* lines 77-86: one turn of the inner loop.
AggregateGene ==
    /\ pc = "gene"
    /\ i_gene < NumGenes
    /\ values' = StoreLevel(values, do_distinguish_strand, i_sample, i_gene + 1,
                            annot_file[i_gene + 1], TrackLevel(bw_file, i_gene + 1))
    /\ i_gene' = i_gene + 1
    /\ UNCHANGED <<pc, nInputs, do_distinguish_strand, percentile, annot_file,
                   annotLoaded, i_sample, bw_file, handles, reg, err>>

\* line 74: the inner loop is over; the next track, or the end of the loop.
NextTrack ==
    /\ pc = "gene"
    /\ i_gene = NumGenes
    /\ i_sample' = i_sample + 1
    /\ pc' = IF i_sample + 1 < nInputs THEN "open" ELSE "filter"
    /\ UNCHANGED <<nInputs, do_distinguish_strand, percentile, annot_file, annotLoaded,
                   values, i_gene, bw_file, handles, reg, err>>

----------------------------------------------------------------------------
\* main, lines 88-90: the percentile filter.

\* line 88: np.percentile(row, p), times 100: NaN as soon as the row holds a
\* NaN, else the linear interpolation between the two order statistics around
\* position p/100 * (n-1).  The row is not empty.
Percentile100(row, p) ==
    IF \E i \in 1..Len(row) : IsNaN(row[i]) THEN NaN
    ELSE LET s == SortSeq(row)
             pos == p * (Len(row) - 1)
             lo == pos \div 100
             frac == pos % 100
         IN  IF frac = 0 THEN 100 * s[lo + 1]
             ELSE 100 * s[lo + 1] + frac * (s[lo + 2] - s[lo + 1])

\* line 89: values <= max_value, one element; a comparison with NaN is False.
LeqThresholdStrict(v, thr100) == ~IsNaN(v) /\ ~IsNaN(thr100) /\ 100 * v < thr100

LeqThreshold(v, thr100) == ~IsNaN(v) /\ ~IsNaN(thr100) /\ 100 * v <= thr100

\* line 89: np.all(..., axis=0): the columns that pass in every row.
ValuesMask(m, p) ==
    [c \in 1..NumCols(m) |->
        \A r \in 1..Len(m) : LeqThreshold(m[r][c], Percentile100(m[r], p))]

\* line 90: row[mask]: the elements of the row where the mask is True, in order.
RECURSIVE SelectCols(_, _)
SelectCols(row, mask) ==
    IF row = <<>> THEN <<>>
    ELSE (IF Head(mask) THEN <<Head(row)>> ELSE <<>>)
         \o SelectCols(Tail(row), Tail(mask))

\* lines 88-90 on a matrix with at least one column.
FilterColumns(m, p) ==
    LET mask == ValuesMask(m, p)
    IN  [r \in 1..Len(m) |-> SelectCols(m[r], mask)]

\* lines 88-90.  Over an annotation without genes np.percentile reduces an empty
\* axis: depending on the numpy at hand it raises (OutlierFilterFails) or yields
\* NaN thresholds, and the empty matrix goes on.
OutlierFilter ==
    /\ pc = "filter"
    /\ values' = IF NumCols(values) = 0 THEN values
                 ELSE FilterColumns(values, percentile)
    /\ pc' = "fit"
    /\ UNCHANGED <<nInputs, do_distinguish_strand, percentile, annot_file, annotLoaded,
                   i_sample, i_gene, bw_file, handles, reg, err>>

OutlierFilterFails ==
    /\ pc = "filter"
    /\ NumCols(values) = 0
    /\ pc' = "error"
    /\ err' = "PercentileIndexError"
    /\ UNCHANGED <<nInputs, do_distinguish_strand, percentile, annot_file, annotLoaded,
                   values, i_sample, i_gene, bw_file, handles, reg>>

----------------------------------------------------------------------------
\* main, lines 92-93: the fit.

DotSeq(x, y) == SumSeq([i \in 1..Len(x) |-> x[i] * y[i]])

\* n * Sxy - Sx * Sy: n*n times the covariance of x and y.
Cov(x, y) == Len(x) * DotSeq(x, y) - SumSeq(x) * SumSeq(y)

\* line 92: LinearRegression(fit_intercept=True).fit(x, y): the least-squares
\* slope Cov(x, y) / Cov(x, x) and the intercept mean(y) - slope * mean(x), as
\* fractions; over a constant x the centred design matrix is zero and the
\* minimum-norm solution has slope 0.
LinearRegression(x, y) ==
    IF Cov(x, x) = 0
    THEN [coefNum |-> 0, coefDen |-> 1,
          interceptNum |-> SumSeq(y), interceptDen |-> Len(x)]
    ELSE [coefNum |-> Cov(x, y), coefDen |-> Cov(x, x),
          interceptNum |-> SumSeq(y) * Cov(x, x) - Cov(x, y) * SumSeq(x),
          interceptDen |-> Len(x) * Cov(x, x)]

\* line 92: what stops the fit: values[1] on a one-row matrix, and sklearn's
\* input validation on no sample or on a NaN.
FitError(m) ==
    IF Len(m) < 2 THEN "FitIndexError"
    ELSE IF NumCols(m) = 0 THEN "FitValueError"
    ELSE IF NaN \in Range(m[1]) \cup Range(m[2]) THEN "FitValueError"
    ELSE "none"

Fit ==
    /\ pc = "fit"
    /\ IF FitError(values) # "none"
       THEN /\ pc' = "error"
            /\ err' = FitError(values)
            /\ reg' = reg
       ELSE /\ pc' = "density"
            /\ err' = err
            /\ reg' = LinearRegression(values[1], values[2])
    /\ UNCHANGED <<nInputs, do_distinguish_strand, percentile, annot_file, annotLoaded,
                   values, i_sample, i_gene, bw_file, handles>>

----------------------------------------------------------------------------
\* main, line 94: the kernel density.

\* The covariance matrix of the rows may be singular: always so for two rows
\* whose covariance determinant is zero; for other row counts it is not decided
\* here.
MaybeSingular(m) ==
    \/ Len(m) # 2
    \/ Cov(m[1], m[1]) * Cov(m[2], m[2]) = Cov(m[1], m[2]) * Cov(m[1], m[2])

\* line 94: gaussian_kde(values)(values) returns ...
Density ==
    /\ pc = "density"
    /\ pc' = "render"
    /\ UNCHANGED <<nInputs, do_distinguish_strand, percentile, annot_file, annotLoaded,
                   values, i_sample, i_gene, bw_file, handles, reg, err>>

\* ... or fails on a singular covariance matrix; on one that is singular only up
\* to rounding either may happen.
DensityFails ==
    /\ pc = "density"
    /\ MaybeSingular(values)
    /\ pc' = "error"
    /\ err' = "LinAlgError"
    /\ UNCHANGED <<nInputs, do_distinguish_strand, percentile, annot_file, annotLoaded,
                   values, i_sample, i_gene, bw_file, handles, reg>>

----------------------------------------------------------------------------
\* main, lines 95-120: the plot.

\* line 95: plt.scatter(*values, c=c_vec) takes two rows; line 97: np.arange
\* with a step of 0.05 * max(values[0]) needs that maximum not to be 0.
RenderError(m) ==
    IF Len(m) # 2 THEN "ScatterTypeError"
    ELSE IF \A c \in 1..NumCols(m) : m[1][c] = 0 THEN "ArangeValueError"
    ELSE "none"

Render ==
    /\ pc = "render"
    /\ IF RenderError(values) # "none"
       THEN /\ pc' = "error"
            /\ err' = RenderError(values)
       ELSE /\ pc' = "done"
            /\ err' = err
    /\ UNCHANGED <<nInputs, do_distinguish_strand, percentile, annot_file, annotLoaded,
                   values, i_sample, i_gene, bw_file, handles, reg>>

----------------------------------------------------------------------------
\* A run of main from its call.

Init ==
    /\ pc = "start"
    /\ nInputs \in 1..MaxInputs
    /\ do_distinguish_strand \in BOOLEAN
    /\ percentile \in Percentiles
    /\ annot_file = <<>>
    /\ annotLoaded = FALSE
    /\ values = <<>>
    /\ i_sample = 0
    /\ i_gene = 0
    /\ bw_file = <<>>
    /\ handles = <<>>
    /\ reg = NoReg
    /\ err = "none"

Next ==
    \/ CheckInputCount
    \/ LoadAnnotation
    \/ LoadAnnotationFails
    \/ AllocValues
    \/ OpenTrack
    \/ OpenTrackFails
    \/ AggregateGene
    \/ NextTrack
    \/ OutlierFilter
    \/ OutlierFilterFails
    \/ Fit
    \/ Density
    \/ DensityFails
    \/ Render

Spec == Init /\ [][Next]_vars

----------------------------------------------------------------------------
\* A run of main taken up at line 88, after the aggregation loop of a run on
\* two tracks without --distinguish_strand: the value matrix holds the two
\* tracks, which may show any level over any gene.

InitFilter ==
    /\ pc = "filter"
    /\ nInputs = 2
    /\ do_distinguish_strand = FALSE
    /\ percentile \in Percentiles
    /\ \E n \in 0..MaxGenes :
           /\ annot_file = [g \in 1..n |-> "+"]
           /\ values \in [1..2 -> [1..n -> Levels]]
           /\ i_gene = n
    /\ annotLoaded = TRUE
    /\ i_sample = 2
    /\ bw_file = values[2]
    /\ handles = values
    /\ reg = NoReg
    /\ err = "none"

NextFilter ==
    \/ OutlierFilter
    \/ OutlierFilterFails
    \/ Fit
    \/ Density
    \/ DensityFails
    \/ Render

FilterSpec == InitFilter /\ [][NextFilter]_vars

----------------------------------------------------------------------------
\* The claims.

\* Without --distinguish_strand row t of the aggregated matrix is track t: once
\* the loop is over, the opened tracks are the matrix as it was before the filter.
Raw == handles

\* a + b on floats: NaN is absorbing.
Add(a, b) == IF IsNaN(a) \/ IsNaN(b) THEN NaN ELSE a + b

\* The columns of matrix m that hold no NaN.
FiniteCols(m) == {c \in 1..NumCols(m) : \A r \in 1..Len(m) : ~IsNaN(m[r][c])}

AfterFit == pc \in {"density", "render", "done"}

Terminated == pc \in {"done", "error"}

\* C1: a run on a number of tracks other than 2 and 4 ends in the
\* invalid-input-count error at once; in a run that ended so, no annotation
\* was loaded and no track was opened.
InvalidCountFailsBeforeIO ==
    /\ (nInputs \notin {2, 4} /\ pc # "start")
           => (pc = "error" /\ err = "InvalidInputCount")
    /\ err = "InvalidInputCount"
           => (nInputs \notin {2, 4} /\ ~annotLoaded /\ handles = <<>>)

InvalidCountWitness == pc = "error" /\ err = "InvalidInputCount" /\ nInputs = 3

\* C2: on 2 or 4 tracks, with or without strand mode, the value matrix of the
\* aggregation loop has exactly 2 rows, each of as many columns as the
\* annotation has genes.
ValueMatrixIsTwoByN ==
    pc \in {"open", "gene", "filter"}
        => /\ Len(values) = 2
           /\ \A r \in 1..Len(values) : Len(values[r]) = NumGenes

\* C3: on 4 tracks without strand mode the aggregated matrix has two rows, row 0
\* the sum of the levels of tracks 0 and 1 and row 1 the sum of those of tracks
\* 2 and 3, gene by gene.
GroupSumRows ==
    (pc = "filter" /\ nInputs = 4 /\ ~do_distinguish_strand)
        => /\ Len(values) = 2
           /\ \A g \in 1..NumGenes :
                  /\ values[1][g] = Add(TrackLevel(handles[1], g), TrackLevel(handles[2], g))
                  /\ values[2][g] = Add(TrackLevel(handles[3], g), TrackLevel(handles[4], g))

\* C4: in strand mode, once the loop has read every track, slot [k, g] is the
\* level of track 2k over a "+" gene, the level of track 2k+1 over a "-" gene,
\* and still 0 over a gene of neither strand; over a "+" gene it is not the
\* level of track 2k+1 where the two differ.
StrandMatchedLevels ==
    (pc = "filter" /\ do_distinguish_strand)
        => /\ Len(values) = nInputs \div 2
           /\ \A k \in 1..Len(values) : \A g \in 1..NumGenes :
                  LET plus == TrackLevel(handles[2 * k - 1], g)
                      minus == TrackLevel(handles[2 * k], g)
                  IN  /\ annot_file[g] = "+" => values[k][g] = plus
                      /\ annot_file[g] = "-" => values[k][g] = minus
                      /\ annot_file[g] \notin {"+", "-"} => values[k][g] = 0
                      /\ (annot_file[g] = "+" /\ plus # minus) => values[k][g] # minus

StrandMatchedWitness ==
    /\ pc = "filter"
    /\ do_distinguish_strand
    /\ nInputs = 4
    /\ annot_file = <<"+", "-", ".">>
    /\ TrackLevel(handles[1], 1) # TrackLevel(handles[2], 1)
    /\ IsNaN(TrackLevel(handles[4], 2))

\* C5: the filter keeps column c exactly when, in every row, the value of c is at
\* most that row's own percentile, a comparison with NaN failing; the kept
\* columns leave every row together, so the rows stay equally long, and they keep
\* their order: the i-th kept column is the i-th column of the result.
FilterKeepsColumnsUnderThreshold ==
    (pc = "fit" /\ NumCols(Raw) > 0)
        => LET thr(r) == Percentile100(Raw[r], percentile)
               Kept == {c \in 1..NumCols(Raw) : \A r \in 1..Len(Raw) :
                            /\ ~IsNaN(Raw[r][c])
                            /\ ~IsNaN(thr(r))
                            /\ 100 * Raw[r][c] <= thr(r)}
               Rank(c) == Cardinality({d \in Kept : d <= c})
           IN  /\ Len(values) = Len(Raw)
               /\ \A r \in 1..Len(values) :
                      /\ Len(values[r]) = Cardinality(Kept)
                      /\ \A c \in Kept : values[r][Rank(c)] = Raw[r][c]

FilterKeepsWitness ==
    /\ pc = "fit"
    /\ percentile = 50
    /\ Raw = << <<1, 3, 2>>, <<1, 1, 1>> >>
    /\ values = << <<1, 2>>, <<1, 1>> >>

\* C6: at percentile 100 the filter removes no column whose values are all
\* finite, whatever the other columns hold.
Percentile100KeepsFiniteColumns ==
    (pc = "fit" /\ percentile = 100)
        => NumCols(values) >= Cardinality(FiniteCols(Raw))

\* C7, as claimed: for every percentile, the filter applied once more to its own
\* result returns that result unchanged.
FilterIdempotent ==
    (pc = "fit" /\ NumCols(values) > 0)
        => FilterColumns(values, percentile) = values

\* C7, amended: at percentile 0 and at percentile 100, the filter applied once
\* more to its own result, when that has a column left, returns it unchanged.
FilterIdempotentAtExtremes ==
    (pc = "fit" /\ percentile \in {0, 100} /\ NumCols(values) > 0)
        => FilterColumns(values, percentile) = values

FilterIdempotentWitness ==
    /\ pc = "fit"
    /\ percentile = 100
    /\ values = << <<1, 3, 2>>, <<2, 1, 3>> >>

\* C8: a level of NaN does not abort the run: on two tracks without strand mode
\* and without percentile trimming (100), where some gene has data in both
\* tracks, the filter leaves exactly the genes with data in every row and the
\* fit is not refused for want of samples.
NaNDoesNotAbort ==
    (/\ nInputs = 2
     /\ ~do_distinguish_strand
     /\ percentile = 100
     /\ Len(handles) = 2
     /\ FiniteCols(Raw) # {})
        => /\ pc = "fit" => NumCols(values) = Cardinality(FiniteCols(Raw))
           /\ ~(pc = "error" /\ err = "FitValueError")

\* C9: when every value of row 0 of the filtered matrix is the same, the fit
\* fails: no run is past the fit with such a row 0 (of two values or more; a
\* single sample is too few for a fit whatever its value).
ConstantXFailsFit ==
    (AfterFit /\ NumCols(values) >= 2)
        => \E c, d \in 1..NumCols(values) : values[1][c] # values[1][d]

\* C10: when the run has ended, normally or in an error, no opened track is
\* still open.
HandlesClosedAtExit == Terminated => handles = <<>>

====
